---- MODULE Spec2Model ----
(***************************************************************************)
(* A model of the inliner html core: Tokenizer -> TextMerger -> Parser ->  *)
(* Dom, the Display rendering of the Dom and the depth_first traversal.    *)
(*                                                                         *)
(* Strings are sequences of one-character strings, so that the character   *)
(* level work of the tokenizer (trimming, splitting, classification) is    *)
(* computed and not assumed.                                               *)
(***************************************************************************)
EXTENDS Integers, Sequences, FiniteSets, TLC

(***************************************************************************)
(* Bounds of the model.                                                    *)
(***************************************************************************)
\* Number of pieces an input document is typed from.
MaxPieces == 5

\* Number of pieces an input is typed from when the pieces are parts of a span.
MaxParts == 4

\* Number of mutating callback invocations in one traversal.
MaxMutations == 2

\* Number of pieces a document with links is typed from.
MaxTags == 3

(***************************************************************************)
(* Characters.                                                             *)
(***************************************************************************)
\* char::is_alphabetic on the characters of the model's alphabet.
Letters ==
    {"a", "b", "c", "d", "e", "f", "g", "h", "i", "j", "k", "l", "m", "n", "o", "p", "q",
     "r", "s", "t", "u", "v", "w", "x", "y", "z", "D", "O", "C", "T", "Y", "P", "E"}

\* char::is_whitespace on the characters of the model's alphabet.
Whitespace == {" ", "\n"}

is_alphabetic(c) == c \in Letters

is_whitespace(c) == c \in Whitespace

(***************************************************************************)
(* str methods used by the source, on sequences of characters.             *)
(***************************************************************************)
Drop(s, n) == SubSeq(s, n + 1, Len(s))

Take(s, n) == SubSeq(s, 1, n)

starts_with(s, p) == Len(s) >= Len(p) /\ Take(s, Len(p)) = p

ends_with(s, p) == Len(s) >= Len(p) /\ Drop(s, Len(s) - Len(p)) = p

\* str::contains(&str)
contains(s, p) == \E i \in 0..(Len(s) - Len(p)) : SubSeq(s, i + 1, i + Len(p)) = p

\* str::trim_start_matches: the pattern is removed from the front repeatedly.
RECURSIVE trim_start_matches(_, _)
trim_start_matches(s, p) ==
    IF Len(p) > 0 /\ starts_with(s, p) THEN trim_start_matches(Drop(s, Len(p)), p) ELSE s

\* str::trim_end_matches: the pattern is removed from the back repeatedly.
RECURSIVE trim_end_matches(_, _)
trim_end_matches(s, p) ==
    IF Len(p) > 0 /\ ends_with(s, p) THEN trim_end_matches(Take(s, Len(s) - Len(p)), p) ELSE s

RECURSIVE trim_start(_)
trim_start(s) == IF s # <<>> /\ is_whitespace(Head(s)) THEN trim_start(Tail(s)) ELSE s

RECURSIVE trim_end(_)
trim_end(s) ==
    IF s # <<>> /\ is_whitespace(s[Len(s)]) THEN trim_end(Take(s, Len(s) - 1)) ELSE s

\* str::trim
trim(s) == trim_end(trim_start(s))

\* Length of the longest prefix of s with no whitespace.
RECURSIVE WordLen(_)
WordLen(s) == IF s = <<>> \/ is_whitespace(Head(s)) THEN 0 ELSE 1 + WordLen(Tail(s))

\* str::split_whitespace, collected: the non-empty maximal runs of non-whitespace.
RECURSIVE split_whitespace(_)
split_whitespace(s) ==
    LET t == trim_start(s)
        n == WordLen(t)
    IN  IF t = <<>> THEN <<>> ELSE <<Take(t, n)>> \o split_whitespace(Drop(t, n))

\* Index of the first occurrence of character c in s, Len(s) + 1 when there is none.
RECURSIVE Find(_, _)
Find(s, c) == IF s = <<>> \/ Head(s) = c THEN 1 ELSE 1 + Find(Tail(s), c)

\* str::split(c), collected.
RECURSIVE split(_, _)
split(s, c) ==
    LET i == Find(s, c)
    IN  IF i > Len(s) THEN <<s>> ELSE <<Take(s, i - 1)>> \o split(Drop(s, i), c)

RECURSIVE Concat(_)
Concat(ss) == IF ss = <<>> THEN <<>> ELSE Head(ss) \o Concat(Tail(ss))

(***************************************************************************)
(* Tokens (token.rs Token / Kind).                                         *)
(***************************************************************************)
\* HashMap::new()
EmptyMap == [k \in {} |-> <<>>]

OpenTag(name, attributes, literal) ==
    [kind |-> "OpenTag", name |-> name, attributes |-> attributes, literal |-> literal]

CloseTag(name, literal) == [kind |-> "CloseTag", name |-> name, literal |-> literal]

Text(text, literal) == [kind |-> "Text", text |-> text, literal |-> literal]

(***************************************************************************)
(* Tokenizer::next.                                                        *)
(***************************************************************************)
\* The name of a close tag span.
CloseName(buffer) ==
    trim(trim_end_matches(trim_start_matches(buffer, <<"<", "/">>), <<">">>))

\* Faulty variant of Words: the '!' after the '<' is kept.
WordsWithMark(buffer) ==
    split_whitespace(
        trim_end_matches(
            trim_end_matches(
                trim_start_matches(trim_start_matches(buffer, <<"<">>), <<"/">>),
                <<">">>),
            <<"/">>))

\* The words of a span that is no close tag.
Words(buffer) ==
    split_whitespace(
        trim_end_matches(
            trim_end_matches(
                trim_start_matches(
                    trim_start_matches(
                        trim_start_matches(buffer, <<"<">>),
                        <<"!">>),
                    <<"/">>),
                <<">">>),
            <<"/">>))

\* The fold's test of one word.
WordOk(word) ==
    ~(~contains(word, <<"=", "\"">>) /\ \E i \in 1..Len(word) : ~is_alphabetic(word[i]))

\* Faulty variant of is_tag: one word that passes the test is enough.
is_tag_some(words) == Len(words) > 0 /\ \E i \in 1..Len(words) : WordOk(words[i])

is_tag(words) == Len(words) > 0 /\ \A i \in 1..Len(words) : WordOk(words[i])

\* The key of an attribute word: parts.next().unwrap().
AttrName(attr) == split(attr, "=")[1]

\* The value of an attribute word: the second part, "" when there is none, unquoted.
AttrValue(attr) ==
    LET parts == split(attr, "=")
        second == IF Len(parts) >= 2 THEN parts[2] ELSE <<>>
    IN  trim_end_matches(trim_start_matches(second, <<"\"">>), <<"\"">>)

\* Iterator<(String, String)>::collect::<HashMap>: a later pair replaces an earlier
\* one with the same key.
Attributes(attrs) ==
    [k \in {AttrName(attrs[i]) : i \in 1..Len(attrs)} |->
        LET last == CHOOSE i \in 1..Len(attrs) :
                        /\ AttrName(attrs[i]) = k
                        /\ \A j \in (i + 1)..Len(attrs) : AttrName(attrs[j]) # k
        IN  AttrValue(attrs[last])]

\* The token of a span that begins with '<'.
Classify(buffer) ==
    IF starts_with(buffer, <<"<", "/">>)
    THEN CloseTag(CloseName(buffer), buffer)
    ELSE LET words == Words(buffer)
         IN  IF is_tag(words)
             THEN OpenTag(Head(words), Attributes(Tail(words)), buffer)
             ELSE Text(buffer, buffer)

\* Index of the last '<' of s, 0 when there is none.
RECURSIVE LastOpen(_)
LastOpen(s) ==
    IF s = <<>> THEN 0 ELSE IF s[Len(s)] = "<" THEN Len(s) ELSE LastOpen(Take(s, Len(s) - 1))

\* Unwinding the stack of characters collected up to a '>': the tokens pushed on
\* self.buffer, in the order they are pushed (the last span first).
RECURSIVE Unwind(_)
Unwind(stack) ==
    LET i == LastOpen(stack)
    IN  IF i = 0
        THEN IF Len(stack) > 0 THEN <<Text(stack, stack)>> ELSE <<>>
        ELSE <<Classify(Drop(stack, i - 1))>> \o Unwind(Take(stack, i - 1))

\* Pop of a Vec.
Pop(v) == Take(v, Len(v) - 1)

Top(v) == v[Len(v)]

\* Faulty variant of TokenizerNext: what is collected when the source ends without
\* a '>' is not yielded.
TokenizerNextDropsRest(t) ==
    IF t.buffer # <<>>
    THEN [source |-> t.source, buffer |-> Pop(t.buffer), item |-> <<Top(t.buffer)>>]
    ELSE LET i == Find(t.source, ">")
         IN  IF i <= Len(t.source)
             THEN LET pushed == Unwind(Take(t.source, i))
                  IN  [source |-> Drop(t.source, i), buffer |-> Pop(pushed),
                       item |-> <<Top(pushed)>>]
             ELSE [source |-> <<>>, buffer |-> <<>>, item |-> <<>>]

\* One call of Tokenizer::next on the tokenizer state t = [source, buffer]:
\* the new state and the item yielded (<<token>>, or <<>> for None).
TokenizerNext(t) ==
    IF t.buffer # <<>>
    THEN [source |-> t.source, buffer |-> Pop(t.buffer), item |-> <<Top(t.buffer)>>]
    ELSE LET i == Find(t.source, ">")
         IN  IF i <= Len(t.source)
             THEN LET pushed == Unwind(Take(t.source, i))
                  IN  [source |-> Drop(t.source, i), buffer |-> Pop(pushed),
                       item |-> <<Top(pushed)>>]
             ELSE IF t.source # <<>>
                  THEN [source |-> <<>>, buffer |-> <<>>,
                        item |-> <<Text(t.source, t.source)>>]
                  ELSE [source |-> <<>>, buffer |-> <<>>, item |-> <<>>]

\* Tokenizer::new(chars) collected: next is called until it yields None.
RECURSIVE TokenizerRun(_)
TokenizerRun(t) ==
    LET r == TokenizerNext(t)
    IN  IF r.item = <<>> THEN <<>>
        ELSE r.item \o TokenizerRun([source |-> r.source, buffer |-> r.buffer])

Tokenize(chars) == TokenizerRun([source |-> chars, buffer |-> <<>>])

(***************************************************************************)
(* TextMerger::next.                                                       *)
(***************************************************************************)
\* Faulty variant of TextRun: an `if` for the `while`, at most one token is merged in.
TextRunTwo(toks) ==
    IF toks # <<>> /\ Head(toks).kind = "Text"
    THEN IF Len(toks) >= 2 /\ toks[2].kind = "Text" THEN 2 ELSE 1
    ELSE 0

\* Number of Text tokens at the front of toks.
RECURSIVE TextRun(_)
TextRun(toks) ==
    IF toks # <<>> /\ Head(toks).kind = "Text" THEN 1 + TextRun(Tail(toks)) ELSE 0

\* The while loop: every following Text token is merged into the first.
RECURSIVE MergeInto(_, _)
MergeInto(tok, rest) ==
    IF rest = <<>> THEN tok
    ELSE MergeInto(Text(tok.text \o Head(rest).text, tok.literal \o Head(rest).literal),
                   Tail(rest))

\* One call of TextMerger::next on the rest of its source: the rest left and the
\* item yielded.
MergerNext(src) ==
    IF src = <<>> THEN [source |-> <<>>, item |-> <<>>]
    ELSE IF Head(src).kind = "Text"
         THEN LET n == TextRun(src)
              IN  [source |-> Drop(src, n),
                   item |-> <<MergeInto(Head(src), SubSeq(src, 2, n))>>]
         ELSE [source |-> Tail(src), item |-> <<Head(src)>>]

\* Tokenizer::merged collected.
RECURSIVE Merge(_)
Merge(src) ==
    LET r == MergerNext(src)
    IN  IF r.item = <<>> THEN <<>> ELSE r.item \o Merge(r.source)

(***************************************************************************)
(* Nodes (parse.rs Node) and Parser::parse / Parser::parse_node.           *)
(*                                                                         *)
(* parse_node is recursive; the model keeps its activation records on an   *)
(* explicit stack. A frame is one active call on a non-self-closing open   *)
(* tag: the tag's token and the local `siblings`.                          *)
(***************************************************************************)
TextNode(text) == [kind |-> "Text", text |-> text]

Tag(name, attributes, children) ==
    [kind |-> "Tag", name |-> name, attributes |-> attributes, children |-> children]

\* Node::self_closing
self_closing(name, attributes) == Tag(name, attributes, <<>>)

\* Faulty variant of is_self_closing: whitespace before the slash is not accepted.
SelfClosingNoSpace(current) ==
    /\ ends_with(current.literal, <<"/", ">">>)
    /\ ~ends_with(current.literal, <<" ", "/", ">">>)

\* current.literal.ends_with("/>")
is_self_closing(current) == ends_with(current.literal, <<"/", ">">>)

\* Faulty variant of TextArm: the text is stored as it is in the token.
TextArmUntrimmed(current) ==
    IF trim(current.text) # <<>> THEN <<TextNode(current.text)>> ELSE <<>>

\* The Kind::Text arm: the trimmed text as one node, or no node.
TextArm(current) ==
    LET text == trim(current.text)
    IN  IF text # <<>> THEN <<TextNode(text)>> ELSE <<>>

\* Faulty variant of Promoted: the collected nodes stay children of the open tag.
PromotedNested(open, siblings) == <<Tag(open.name, open.attributes, siblings)>>

\* Faulty variant of Promoted: the open tag comes after the nodes collected under it.
PromotedLast(open, siblings) == siblings \o <<Tag(open.name, open.attributes, <<>>)>>

\* The two returns that give up on the open tag: it has no children and the
\* siblings collected so far follow it.
Promoted(open, siblings) == <<Tag(open.name, open.attributes, <<>>)>> \o siblings

\* Faulty variant of Closed: the collected nodes are dropped.
ClosedChildless(open, siblings) == <<Tag(open.name, open.attributes, <<>>)>>

\* The return on the matching close tag.
Closed(open, siblings) == <<Tag(open.name, open.attributes, siblings)>>

\* Faulty variant of Mismatch: any close tag closes the open tag.
MismatchIgnored(open, close) == FALSE

\* The open tag's name differs from the close tag's.
Mismatch(open, close) == open.name # close.name

Frame(open) == [open |-> open, siblings |-> <<>>]

\* A call of parse_node returns `group` to its caller: the enclosing parse_node
\* extends its siblings, parse extends nodes.
Return(ps, group) ==
    IF ps.stack = <<>>
    THEN [ps EXCEPT !.nodes = @ \o group]
    ELSE [ps EXCEPT !.stack[Len(ps.stack)].siblings = @ \o group]

\* Entry of parse_node(current) up to its while loop.
ParseNodeEntry(ps, current) ==
    CASE current.kind = "Text" -> Return(ps, TextArm(current))
      [] current.kind = "CloseTag" -> [ps EXCEPT !.result = "err", !.nodes = <<>>]
      [] current.kind = "OpenTag" ->
            IF is_self_closing(current)
            THEN Return(ps, <<self_closing(current.name, current.attributes)>>)
            ELSE [ps EXCEPT !.stack = Append(@, Frame(current))]

\* One iteration of parse's while loop, or its end.
ParseIter(toks, ps) ==
    IF ps.pos <= Len(toks)
    THEN ParseNodeEntry([ps EXCEPT !.pos = @ + 1], toks[ps.pos])
    ELSE [ps EXCEPT !.result = "ok"]

\* Faulty variant of OnMismatch: a close tag of another name is an error.
OnMismatchErr(caller, top) == [caller EXCEPT !.result = "err", !.nodes = <<>>]

\* The return on a close tag of another name: the close tag stays in the source.
OnMismatch(caller, top) == Return(caller, Promoted(top.open, top.siblings))

\* The return on the close tag of the same name, after self.source.next().
OnMatch(caller, top) ==
    Return([caller EXCEPT !.pos = @ + 1], Closed(top.open, top.siblings))

\* Faulty variant of OnExhausted: the nodes collected under the open tag are lost.
OnExhaustedDrops(caller, top) == Return(caller, <<Tag(top.open.name, top.open.attributes, <<>>)>>)

\* The return after the while loop: the source is exhausted.
OnExhausted(caller, top) == Return(caller, Promoted(top.open, top.siblings))

\* One iteration of the while loop of the innermost active parse_node, or the
\* return after it when the source is exhausted.
NodeIter(toks, ps) ==
    LET top == Top(ps.stack)
        caller == [ps EXCEPT !.stack = Pop(@)]
    IN  IF ps.pos > Len(toks)
        THEN OnExhausted(caller, top)
        ELSE IF toks[ps.pos].kind = "CloseTag"
             THEN IF Mismatch(top.open, toks[ps.pos])
                  THEN OnMismatch(caller, top)
                  ELSE OnMatch(caller, top)
             ELSE ParseNodeEntry([ps EXCEPT !.pos = @ + 1], toks[ps.pos])

ParserStep(toks, ps) == IF ps.stack = <<>> THEN ParseIter(toks, ps) ELSE NodeIter(toks, ps)

\* Parser::new
NewParser == [pos |-> 1, stack |-> <<>>, nodes |-> <<>>, result |-> "run"]

RECURSIVE ParserRun(_, _)
ParserRun(toks, ps) == IF ps.result # "run" THEN ps ELSE ParserRun(toks, ParserStep(toks, ps))

\* Parser::new(Tokenizer::new(chars).merged()).parse()
Parse(chars) == ParserRun(Merge(Tokenize(chars)), NewParser)

(***************************************************************************)
(* Display for Node and Dom. HashMap::iter visits the attributes in an     *)
(* order the program does not control, so a rendering is one of a set.     *)
(***************************************************************************)
\* The orders in which HashMap::iter may visit the keys.
IterOrders(keys) ==
    {o \in [1..Cardinality(keys) -> keys] : \A i, j \in DOMAIN o : i # j => o[i] # o[j]}

\* Faulty variant of AttrItem: an empty value is written out too.
AttrItemQuoted(k, v) == k \o <<"=", "\"">> \o v \o <<"\"">>

\* The closure of the map: name="value", or the bare name for an empty value.
AttrItem(k, v) == IF v # <<>> THEN k \o <<"=", "\"">> \o v \o <<"\"">> ELSE k

\* The fold: a space before every item.
RECURSIVE SpaceFold(_)
SpaceFold(items) ==
    IF items = <<>> THEN <<>> ELSE <<" ">> \o Head(items) \o SpaceFold(Tail(items))

\* The attributes argument of write!, for every iteration order.
AttrStrings(attributes) ==
    {trim_end(SpaceFold([i \in DOMAIN o |-> AttrItem(o[i], attributes[o[i]])])) :
        o \in IterOrders(DOMAIN attributes)}

RECURSIVE NodeStrings(_)
RECURSIVE ChildFolds(_)
\* The folds of the children's renderings, before trim_end.
ChildFolds(children) ==
    IF children = <<>> THEN {<<>>}
    ELSE {<<" ">> \o h \o t : h \in NodeStrings(Head(children)), t \in ChildFolds(Tail(children))}

\* Node::to_string, for every iteration order of the attribute maps.
NodeStrings(node) ==
    IF node.kind = "Text" THEN {node.text}
    ELSE IF node.children = <<>>
         THEN {<<"<">> \o node.name \o a \o <<"/", ">">> : a \in AttrStrings(node.attributes)}
         ELSE {<<"<">> \o node.name \o a \o <<">">> \o trim_end(c)
                    \o <<"<", "/">> \o node.name \o <<">">> :
                  a \in AttrStrings(node.attributes), c \in ChildFolds(node.children)}

\* Dom::to_string: every root node followed by a newline.
RECURSIVE DomStrings(_)
DomStrings(roots) ==
    IF roots = <<>> THEN {<<>>}
    ELSE {h \o <<"\n">> \o t : h \in NodeStrings(Head(roots)), t \in DomStrings(Tail(roots))}

(***************************************************************************)
(* NodeRef = Rc<RefCell<Node>> and Dom::depth_first / Dom::visit_notes.    *)
(*                                                                         *)
(* A NodeRef is a handle: the heap is the sequence of the RefCells made so *)
(* far, a handle is an index into it, and a Tag's children are handles.    *)
(* visit_notes is recursive; a frame is one active call: the slice it      *)
(* iterates, the index of the node of the current iteration, and the       *)
(* handle whose borrow the slice lives in (0 for the Dom's own Vec).       *)
(***************************************************************************)
RECURSIVE IntoRefs(_, _)
\* Node::into for a list of nodes and all below them, children first as the parser
\* makes them: the heap grown, and the handles of the list.
IntoRefs(heap, ns) ==
    IF ns = <<>> THEN [heap |-> heap, refs |-> <<>>]
    ELSE LET n == Head(ns)
             below == IF n.kind = "Tag" THEN IntoRefs(heap, n.children)
                      ELSE [heap |-> heap, refs |-> <<>>]
             cell == IF n.kind = "Tag" THEN [n EXCEPT !.children = below.refs] ELSE n
             rest == IntoRefs(Append(below.heap, cell), Tail(ns))
         IN  [heap |-> rest.heap, refs |-> <<Len(below.heap) + 1>> \o rest.refs]

\* The nodes behind a list of handles, as values.
RECURSIVE Deref(_, _)
Deref(heap, refs) ==
    IF refs = <<>> THEN <<>>
    ELSE LET n == heap[Head(refs)]
         IN  <<IF n.kind = "Tag" THEN [n EXCEPT !.children = Deref(heap, n.children)] ELSE n>>
                \o Deref(heap, Tail(refs))

\* What a callback may do with the node it is given, through n.borrow_mut().
Outcomes(node) ==
    IF node.kind = "Tag"
    THEN {"keep", "fail", "push_text", "push_tag", "clear", "inline", "to_text"}
    ELSE {"keep", "fail", "retext"}

Mutating(m) == m \notin {"keep", "fail"}

Str_x == <<"x">>

Str_n == <<"n">>

\* The heap after the callback did m to the node behind ref.
CallbackEffect(heap, ref, m) ==
    LET new == Len(heap) + 1
    IN  CASE m = "push_text" ->
                Append([heap EXCEPT ![ref].children = Append(@, new)], TextNode(Str_x))
          [] m = "push_tag" ->
                Append([heap EXCEPT ![ref].children = Append(@, new)],
                       Tag(Str_n, EmptyMap, <<>>))
          [] m = "clear" -> [heap EXCEPT ![ref].children = <<>>]
          [] m = "inline" ->
                Append([heap EXCEPT ![ref].children = <<new>>], TextNode(Str_x))
          [] m = "to_text" -> [heap EXCEPT ![ref] = TextNode(Str_x)]
          [] m = "retext" -> [heap EXCEPT ![ref] = TextNode(Str_x)]
          [] OTHER -> heap

\* Faulty variant of Borrowed: the children are read before the callback runs.
BorrowedEarly(before, after, ref) == before[ref]

\* node.borrow() after cb(node.clone()) returned: the node as the callback left it.
Borrowed(before, after, ref) == after[ref]

\* Faulty variant of Propagate: the error is dropped and the loop goes on.
PropagateIgnored(w) ==
    [w EXCEPT !.frames[Len(w.frames)].idx = @ + 1]

\* cb(..)? on an Err: every active visit_notes returns it, depth_first returns it.
Propagate(w) == [w EXCEPT !.frames = <<>>, !.outcome = "err"]

\* Faulty variant of Reads: the node is borrowed before the callback is invoked.
ReadsWithGiven(w) ==
    {w.frames[i].owner : i \in 2..Len(w.frames)}
        \cup (IF w.frames # <<>> /\ Top(w.frames).idx <= Len(Top(w.frames).nodes)
              THEN {Top(w.frames).nodes[Top(w.frames).idx]} ELSE {})

\* The RefCells on which the traversal holds a Ref: node.borrow() of the `if let`
\* lives while visit_notes runs on the children, so every active call but the
\* outermost iterates inside the borrow of the node that owns its slice.
Reads(w) == {w.frames[i].owner : i \in 2..Len(w.frames)}

\* Faulty variant of borrow_mut: the borrow flag is not looked at.
borrow_mut_unchecked(w, r) == TRUE

\* RefCell::borrow_mut on the cell behind r during the callback: granted when no
\* borrow of the cell is alive, a BorrowMutError panic otherwise.
borrow_mut(w, r) == r \notin Reads(w)

\* One iteration of the for loop of the innermost visit_notes with a callback
\* that requests write access to the cell behind r and, when it gets it, does m
\* to that node.
WriteIter(w, r, m) ==
    LET top == Top(w.frames)
        ref == top.nodes[top.idx]
    IN  IF ~borrow_mut(w, r)
        THEN [w EXCEPT !.log = Append(@, [ref |-> ref, did |-> "rejected", target |-> r]),
                       !.frames = <<>>,
                       !.outcome = "panic"]
        ELSE LET after == CallbackEffect(w.heap, r, m)
                 called == [w EXCEPT !.log = Append(@, [ref |-> ref, did |-> m, target |-> r]),
                                     !.heap = after,
                                     !.mutations = @ + 1]
                 node == Borrowed(w.heap, after, ref)
             IN  IF node.kind = "Tag"
                 THEN [called EXCEPT !.frames =
                            Append(@, [nodes |-> node.children, idx |-> 1, owner |-> ref])]
                 ELSE [called EXCEPT !.frames[Len(w.frames)].idx = @ + 1]

\* One iteration of the for loop of the innermost visit_notes: the callback
\* is invoked on the node and does m, then the node's children are visited.
VisitIter(w, m) ==
    LET top == Top(w.frames)
        ref == top.nodes[top.idx]
        after == CallbackEffect(w.heap, ref, m)
        called == [w EXCEPT !.log = Append(@, [ref |-> ref, did |-> m]),
                            !.heap = after,
                            !.mutations = IF Mutating(m) THEN @ + 1 ELSE @]
        node == Borrowed(w.heap, after, ref)
    IN  IF m = "fail" THEN Propagate(called)
        ELSE IF node.kind = "Tag"
             THEN [called EXCEPT !.frames =
                        Append(@, [nodes |-> node.children, idx |-> 1, owner |-> ref])]
             ELSE [called EXCEPT !.frames[Len(w.frames)].idx = @ + 1]

\* The for loop of the innermost visit_notes is over: Ok(()), and its caller
\* goes on with its next node; depth_first returns Ok(()) when it was the outermost.
VisitReturn(w) ==
    IF Len(w.frames) = 1
    THEN [w EXCEPT !.frames = <<>>, !.outcome = "ok"]
    ELSE [w EXCEPT !.frames = [Pop(@) EXCEPT ![Len(w.frames) - 1].idx = @ + 1]]

\* dom.depth_first(cb) is entered on the Dom of the parsed nodes.
NewWalk(ns) ==
    LET made == IntoRefs(<<>>, ns)
    IN  [heap |-> made.heap, roots |-> made.refs,
         frames |-> <<[nodes |-> made.refs, idx |-> 1, owner |-> 0]>>,
         log |-> <<>>, outcome |-> "run", mutations |-> 0]

NoWalk ==
    [heap |-> <<>>, roots |-> <<>>, frames |-> <<>>, log |-> <<>>, outcome |-> "none",
     mutations |-> 0]

(***************************************************************************)
(* The callback of inline (main.rs, inline.rs): a Tag with an href or src  *)
(* attribute has the file it links inlined. What the file system answers   *)
(* is an input of each invocation: an error, or the content of the file.   *)
(***************************************************************************)
Str_href == <<"h", "r", "e", "f">>

Str_src == <<"s", "r", "c">>

Str_rel == <<"r", "e", "l">>

Str_style == <<"s", "t", "y", "l", "e">>

\* str::trim_matches(char)
trim_matches(s, c) == trim_end_matches(trim_start_matches(s, <<c>>), <<c>>)

\* HashMap::remove
Remove(attr, k) == [x \in DOMAIN attr \ {k} |-> attr[x]]

\* HashMap::insert
Insert(attr, k, v) == [x \in DOMAIN attr \cup {k} |-> IF x = k THEN v ELSE attr[x]]

\* attr.get("href").or(attr.get("src")): <<value>>, or <<>> for None.
Link(attr) ==
    IF Str_href \in DOMAIN attr THEN <<attr[Str_href]>>
    ELSE IF Str_src \in DOMAIN attr THEN <<attr[Str_src]>>
    ELSE <<>>

\* The fold over ["html", "js", "css"].
is_plain_text(link) ==
    \E ext \in {<<"h", "t", "m", "l">>, <<"j", "s">>, <<"c", "s", "s">>} : ends_with(link, ext)

\* mime_guess::from_path(link).first_or_octet_stream() on the links of the model.
media_type(link) ==
    IF ends_with(link, <<".", "p", "n", "g">>)
    THEN <<"i", "m", "a", "g", "e", "/", "p", "n", "g">>
    ELSE <<"a", "p", "p", "l", "i", "c", "a", "t", "i", "o", "n", "/", "o", "c", "t", "e", "t", "-", "s", "t", "r", "e", "a", "m">>

\* The byte of a character of a file of the model.
Byte(c) == CASE c = "x" -> 120 [] c = "y" -> 121 [] c = "\n" -> 10

Base64Alphabet ==
    <<"A", "B", "C", "D", "E", "F", "G", "H", "I", "J", "K", "L", "M", "N", "O", "P",
      "Q", "R", "S", "T", "U", "V", "W", "X", "Y", "Z", "a", "b", "c", "d", "e", "f",
      "g", "h", "i", "j", "k", "l", "m", "n", "o", "p", "q", "r", "s", "t", "u", "v",
      "w", "x", "y", "z", "0", "1", "2", "3", "4", "5", "6", "7", "8", "9", "+", "/">>

\* base64::encode
RECURSIVE base64_encode(_)
base64_encode(bytes) ==
    IF bytes = <<>> THEN <<>>
    ELSE LET n == Len(bytes)
             v == Byte(bytes[1]) * 65536
                    + (IF n >= 2 THEN Byte(bytes[2]) * 256 ELSE 0)
                    + (IF n >= 3 THEN Byte(bytes[3]) ELSE 0)
         IN  <<Base64Alphabet[(v \div 262144) + 1],
               Base64Alphabet[((v \div 4096) % 64) + 1],
               IF n >= 2 THEN Base64Alphabet[((v \div 64) % 64) + 1] ELSE "=",
               IF n >= 3 THEN Base64Alphabet[(v % 64) + 1] ELSE "=">>
                \o base64_encode(Drop(bytes, IF n >= 3 THEN 3 ELSE n))

\* format!("data:{media_type};bas64,{data}")
data_url(link, content) ==
    <<"d", "a", "t", "a", ":">> \o media_type(link) \o <<";", "b", "a", "s", "6", "4", ",">> \o base64_encode(content)

\* What fs::File::open / fs::read_to_string may answer: an error, or a content.
Str_err == <<"e", "r", "r">>

Contents == {<<"x">>, <<"y", "\n">>}

Loads == {Str_err} \cup Contents

\* The `false` arm: the data url replaces the href, or else the src.
BinaryArm(node, link, content) ==
    IF Str_href \in DOMAIN node.attributes
    THEN [node EXCEPT !.attributes = Insert(@, Str_href, data_url(link, content))]
    ELSE IF Str_src \in DOMAIN node.attributes
         THEN [node EXCEPT !.attributes = Insert(@, Str_src, data_url(link, content))]
         ELSE node

\* Faulty variant of TextArmInline: only the attribute the link was read from is
\* removed, and the Text is pushed after the children there are.
TextArmInlineKeeps(node, link, new) ==
    LET css == ends_with(link, <<"c", "s", "s">>)
        named == IF css THEN [node EXCEPT !.name = Str_style] ELSE node
        attr == IF css THEN Remove(node.attributes, Str_rel) ELSE node.attributes
    IN  [named EXCEPT !.attributes = IF Str_href \in DOMAIN attr THEN Remove(attr, Str_href)
                                     ELSE Remove(attr, Str_src),
                      !.children = Append(@, new)]

\* The `true` arm: the node with the handle `new` of the Text of the content as
\* its only child.
TextArmInline(node, link, new) ==
    LET css == ends_with(link, <<"c", "s", "s">>)
        named == IF css THEN [node EXCEPT !.name = Str_style] ELSE node
        attr == IF css THEN Remove(node.attributes, Str_rel) ELSE node.attributes
    IN  [named EXCEPT !.attributes = Remove(Remove(attr, Str_href), Str_src),
                      !.children = <<new>>]

\* What the callback does on the node behind ref when the file system answers
\* `load`: the heap it leaves and what it did.
Callback(heap, ref, load) ==
    LET node == heap[ref]
    IN  IF node.kind # "Tag" \/ Link(node.attributes) = <<>>
        THEN [heap |-> heap, did |-> "keep"]
        ELSE LET link == trim_matches(Link(node.attributes)[1], "/")
             IN  IF load = Str_err THEN [heap |-> heap, did |-> "fail"]
                 ELSE IF is_plain_text(link)
                      THEN [heap |-> Append([heap EXCEPT ![ref] =
                                                TextArmInline(node, link, Len(heap) + 1)],
                                            TextNode(load)),
                            did |-> "text"]
                      ELSE [heap |-> [heap EXCEPT ![ref] = BinaryArm(node, link, load)],
                            did |-> "binary"]

\* One iteration of the for loop of the innermost visit_notes with the callback
\* of inline.
InlineIter(w, load) ==
    LET top == Top(w.frames)
        ref == top.nodes[top.idx]
        cb == Callback(w.heap, ref, load)
        called == [w EXCEPT !.log = Append(@, [ref |-> ref, did |-> cb.did]),
                            !.heap = cb.heap]
        node == Borrowed(w.heap, cb.heap, ref)
    IN  IF cb.did = "fail" THEN Propagate(called)
        ELSE IF node.kind = "Tag"
             THEN [called EXCEPT !.frames =
                        Append(@, [nodes |-> node.children, idx |-> 1, owner |-> ref])]
             ELSE [called EXCEPT !.frames[Len(w.frames)].idx = @ + 1]

(***************************************************************************)
(* The documents the model types.                                          *)
(***************************************************************************)
\* Pieces of a document: tags, text and padding.
DocPieces ==
    { <<"<", "a", ">">>,
      <<"<", "b", ">">>,
      <<"<", "/", "a", ">">>,
      <<"<", "/", "b", ">">>,
      <<"<", "c", " ", "k", "=", "\"", "v", "\"", " ", "/", ">">>,
      <<" ", "t", " ">>,
      <<" ">> }

\* Pieces of a span: brackets, words and padding.
SpanPieces ==
    { <<"<", "a">>,
      <<">">>,
      <<"/", ">">>,
      <<" ">>,
      <<" ", "k">>,
      <<" ", "k", "=", "\"", "v", "\"">>,
      <<" ", "=", "\"", "\"">>,
      <<" ", "k", "=", "\"", "c", "=", "v", "\"">>,
      <<"<">>,
      <<"<", "/", "a", ">">>,
      <<"<", "b", ">">> }

\* The documents whose Dom is traversed.
VisitDocs ==
    { <<"<", "a", ">", "<", "b", ">", " ", "t", " ", "<", "/", "b", ">",
        "<", "c", " ", "k", "=", "\"", "v", "\"", " ", "/", ">", "<", "/", "a", ">">>,
      <<" ", "t", " ", "<", "a", ">", "<", "/", "a", ">">>,
      <<"<", "a", ">", "<", "b", ">", "<", "c", " ", "k", "=", "\"", "v", "\"", " ", "/", ">",
        "<", "/", "b", ">", "<", "/", "a", ">", "<", "b", ">", " ", "t", " ", "<", "/", "b", ">">> }

\* Pieces of a span, character by character: brackets, the declaration mark,
\* slashes, words that are alphabetic, words that are not, and padding.
WordPieces ==
    { <<"<">>,
      <<"<", "!">>,
      <<"!">>,
      <<"/">>,
      <<">">>,
      <<" ">>,
      <<"a">>,
      <<"D", "O", "C", "T", "Y", "P", "E">>,
      <<" ", "h", "t", "m", "l">>,
      <<"=", "\"">>,
      <<"1">> }

\* Pieces of a document with links: tags with href and src attributes and text.
InlinePieces ==
    { <<"<", "l", " ", "r", "e", "l", "=", "\"", "s", "\"", " ", "h", "r", "e", "f", "=",
        "\"", "a", ".", "c", "s", "s", "\"", "/", ">">>,
      <<"<", "s", " ", "s", "r", "c", "=", "\"", "/", "b", ".", "j", "s", "\"", ">">>,
      <<" ", "t", " ", "<", "/", "s", ">">>,
      <<"<", "i", " ", "h", "r", "e", "f", "=", "\"", "c", ".", "p", "n", "g", "\"", " ",
        "s", "r", "c", "=", "\"", "e", "\"", "/", ">">>,
      <<"<", "a", " ", "h", "r", "e", "f", "=", "\"", "d", ".", "h", "t", "m", "l", "\"",
        " ", "s", "r", "c", "=", "\"", "e", ".", "p", "n", "g", "\"", ">">>,
      <<"<", "m", " ", "s", "r", "c", "=", "\"", "c", ".", "p", "n", "g", "\"", " ", "k",
        "/", ">">>,
      <<"<", "c", " ", "k", "=", "\"", "v", "\"", " ", "j", "/", ">">>,
      <<"<", "o", " ", "s", "r", "c", "=", "\"", "e", ".", "s", "c", "s", "s", "\"", "/", ">">>,
      <<" ", "t", " ">> }

\* The most pieces an input of the given pieces is typed from.
Limit(ps) ==
    IF ps = DocPieces THEN MaxPieces ELSE IF ps = InlinePieces THEN MaxTags ELSE MaxParts

(***************************************************************************)
(* State.                                                                  *)
(***************************************************************************)
VARIABLES
    pc,         \* where the program is: "input", "parse", "parsed", "rendered", "done"
    pieces,     \* the pieces the input is typed from
    typed,      \* number of pieces typed
    input,      \* the input document
    raw,        \* the tokens the Tokenizer yields
    tokens,     \* the tokens the TextMerger yields: the Parser's source
    parser,     \* the Parser: source position, active parse_node calls, nodes, result
    rendered,   \* Dom::to_string of the parsed Dom
    reparsed,   \* the parse of rendered
    walk        \* depth_first: the heap of RefCells, the Dom's handles, the active
                \* visit_notes calls, the callback's invocations (the handle it was
                \* given and what it did), the result

vars == <<pc, pieces, typed, input, raw, tokens, parser, rendered, reparsed, walk>>

NoParser == [pos |-> 0, stack |-> <<>>, nodes |-> <<>>, result |-> "none"]

InitWith(ps) ==
    /\ pc = "input"
    /\ pieces = ps
    /\ typed = 0
    /\ input = <<>>
    /\ raw = <<>>
    /\ tokens = <<>>
    /\ parser = NoParser
    /\ rendered = <<>>
    /\ reparsed = NoParser
    /\ walk = NoWalk

Init == InitWith(DocPieces)

\* The document grows by one piece.
Type(p) ==
    /\ pc = "input"
    /\ typed < Limit(pieces)
    /\ p \in pieces
    /\ typed' = typed + 1
    /\ input' = input \o p
    /\ UNCHANGED <<pc, pieces, raw, tokens, parser, rendered, reparsed, walk>>

\* Parser::new(Tokenizer::new(input.chars()).merged()). The iterators are pulled
\* lazily by the parser and have no effect on one another, so the token sequences
\* are those of running each to its end.
Open ==
    /\ pc = "input"
    /\ pc' = "parse"
    /\ raw' = Tokenize(input)
    /\ tokens' = Merge(raw')
    /\ parser' = NewParser
    /\ UNCHANGED <<pieces, typed, input, rendered, reparsed, walk>>

\* parse: one iteration of its while loop when no parse_node is active; the
\* Err of parse_node ends parse through `?`.
ParseLoop ==
    /\ pc = "parse"
    /\ parser.stack = <<>>
    /\ parser.pos <= Len(tokens)
    /\ parser' = ParseIter(tokens, parser)
    /\ pc' = IF parser'.result = "run" THEN "parse" ELSE "parsed"
    /\ UNCHANGED <<pieces, typed, input, raw, tokens, rendered, reparsed, walk>>

\* parse_node: one iteration of the while loop of the innermost active call.
NodeLoop ==
    /\ pc = "parse"
    /\ parser.stack # <<>>
    /\ parser' = NodeIter(tokens, parser)
    /\ UNCHANGED <<pc, pieces, typed, input, raw, tokens, rendered, reparsed, walk>>

\* parse: the source is exhausted, Ok(Dom { nodes }).
ParseEnd ==
    /\ pc = "parse"
    /\ parser.stack = <<>>
    /\ parser.pos > Len(tokens)
    /\ parser' = ParseIter(tokens, parser)
    /\ pc' = "parsed"
    /\ UNCHANGED <<pieces, typed, input, raw, tokens, rendered, reparsed, walk>>

\* html::inline: .to_string() of the Dom.
Render ==
    /\ pc = "parsed"
    /\ parser.result = "ok"
    /\ rendered' \in DomStrings(parser.nodes)
    /\ pc' = "rendered"
    /\ UNCHANGED <<pieces, typed, input, raw, tokens, parser, reparsed, walk>>

\* The rendering is parsed again.
Reparse ==
    /\ pc = "rendered"
    /\ reparsed' = Parse(rendered)
    /\ pc' = "done"
    /\ UNCHANGED <<pieces, typed, input, raw, tokens, parser, rendered, walk>>

Next ==
    \/ \E p \in pieces : Type(p)
    \/ Open
    \/ ParseLoop
    \/ NodeLoop
    \/ ParseEnd
    \/ Render
    \/ Reparse

Spec == Init /\ [][Next]_vars

\* The same program on inputs typed from the parts of spans.
InitSpan == InitWith(SpanPieces)

SpecSpan == InitSpan /\ [][Next]_vars

\* The same program on inputs typed character by character.
InitWord == InitWith(WordPieces)

SpecWord == InitWord /\ [][Next]_vars

\* The program of main.rs after a document has been parsed: inline has the Dom
\* and enters depth_first.
InitVisit ==
    /\ pc = "visit"
    /\ pieces = {}
    /\ typed = 0
    /\ input \in VisitDocs
    /\ raw = Tokenize(input)
    /\ tokens = Merge(raw)
    /\ parser = ParserRun(tokens, NewParser)
    /\ parser.result = "ok"
    /\ rendered = <<>>
    /\ reparsed = NoParser
    /\ walk = NewWalk(parser.nodes)

\* visit_notes: one iteration of the for loop of the innermost call; the callback
\* does m to the node.
Visit(m) ==
    /\ pc = "visit"
    /\ walk.frames # <<>>
    /\ Top(walk.frames).idx <= Len(Top(walk.frames).nodes)
    /\ m \in Outcomes(walk.heap[Top(walk.frames).nodes[Top(walk.frames).idx]])
    /\ Mutating(m) => walk.mutations < MaxMutations
    /\ walk' = VisitIter(walk, m)
    /\ pc' = IF walk'.outcome = "run" THEN "visit" ELSE "visited"
    /\ UNCHANGED <<pieces, typed, input, raw, tokens, parser, rendered, reparsed>>

\* visit_notes: the for loop of the innermost call is over.
Leave ==
    /\ pc = "visit"
    /\ walk.frames # <<>>
    /\ Top(walk.frames).idx > Len(Top(walk.frames).nodes)
    /\ walk' = VisitReturn(walk)
    /\ pc' = IF walk'.outcome = "run" THEN "visit" ELSE "visited"
    /\ UNCHANGED <<pieces, typed, input, raw, tokens, parser, rendered, reparsed>>

NextVisit ==
    \/ \E m \in {"keep", "fail", "push_text", "push_tag", "clear", "inline", "to_text",
                  "retext"} : Visit(m)
    \/ Leave

SpecVisit == InitVisit /\ [][NextVisit]_vars

\* The program of main.rs from the input on: the document is parsed, the Dom is
\* traversed with the callback of inline and rendered.
InitInline == InitWith(InlinePieces)

\* .expect("parsing dom") has its Dom and dom.depth_first is entered.
Enter ==
    /\ pc = "parsed"
    /\ parser.result = "ok"
    /\ walk' = NewWalk(parser.nodes)
    /\ pc' = "visit"
    /\ UNCHANGED <<pieces, typed, input, raw, tokens, parser, rendered, reparsed>>

\* visit_notes: one iteration of the for loop of the innermost call; the file
\* system answers `load` to the callback of inline.
Inline(load) ==
    /\ pc = "visit"
    /\ walk.frames # <<>>
    /\ Top(walk.frames).idx <= Len(Top(walk.frames).nodes)
    /\ walk' = InlineIter(walk, load)
    /\ pc' = IF walk'.outcome = "run" THEN "visit" ELSE "visited"
    /\ UNCHANGED <<pieces, typed, input, raw, tokens, parser, rendered, reparsed>>

\* Ok(dom.to_string()) after depth_first returned Ok.
Output ==
    /\ pc = "visited"
    /\ walk.outcome = "ok"
    /\ rendered' \in DomStrings(Deref(walk.heap, walk.roots))
    /\ pc' = "output"
    /\ UNCHANGED <<pieces, typed, input, raw, tokens, parser, reparsed, walk>>

NextInline ==
    \/ \E p \in pieces : Type(p)
    \/ Open
    \/ ParseLoop
    \/ NodeLoop
    \/ ParseEnd
    \/ Enter
    \/ \E load \in Loads : Inline(load)
    \/ Leave
    \/ Output

SpecInline == InitInline /\ [][NextInline]_vars

\* visit_notes: one iteration of the for loop of the innermost call; the callback
\* requests write access to a node, the one it is given now or one whose handle it
\* has kept from an earlier invocation, and does m to it.
Write(m) ==
    /\ pc = "visit"
    /\ walk.frames # <<>>
    /\ Top(walk.frames).idx <= Len(Top(walk.frames).nodes)
    /\ Mutating(m)
    /\ walk.mutations < MaxMutations
    /\ \E r \in DOMAIN walk.heap :
            /\ r = Top(walk.frames).nodes[Top(walk.frames).idx]
                    \/ \E i \in DOMAIN walk.log : walk.log[i].ref = r
            /\ m \in Outcomes(walk.heap[r])
            /\ walk' = WriteIter(walk, r, m)
    /\ pc' = IF walk'.outcome = "run" THEN "visit" ELSE "visited"
    /\ UNCHANGED <<pieces, typed, input, raw, tokens, parser, rendered, reparsed>>

NextBorrow ==
    \/ \E m \in {"keep", "fail"} : Visit(m)
    \/ \E m \in {"push_text", "push_tag", "clear", "inline", "to_text", "retext"} : Write(m)
    \/ Leave

\* The traversal with callbacks that keep the handles they are given.
SpecBorrow == InitVisit /\ [][NextBorrow]_vars

(***************************************************************************)
(* Properties.                                                             *)
(***************************************************************************)
Str_a == <<"a">>

Str_b == <<"b">>

Str_t == <<"t">>

Range(f) == {f[i] : i \in DOMAIN f}

\* The names of the open tags whose parse_node calls are active, outermost first.
OpenNames(stack) == [i \in DOMAIN stack |-> stack[i].open.name]

\* The parser is inside parse_node for the open tag T and looks at the next token.
Collecting == pc = "parse" /\ parser.stack # <<>>

\* The token the parser looks at is a close tag.
AtCloseTag == parser.pos <= Len(tokens) /\ tokens[parser.pos].kind = "CloseTag"

\* What the level enclosing the innermost open tag has received so far.
Level(ps, depth) == IF depth = 0 THEN ps.nodes ELSE ps.stack[depth].siblings

\* The step leaves `depth` parse_node calls active, the innermost of them (parse
\* itself when depth is 0) receives `group`, and nothing else of the parser
\* changes but the position, by `consumed`.
Delivers(group, depth, consumed) ==
    /\ parser'.result = "run"
    /\ parser'.pos = parser.pos + consumed
    /\ Len(parser'.stack) = depth
    /\ Level(parser', depth) = Level(parser, depth) \o group
    /\ \A d \in 0..(depth - 1) : Level(parser', d) = Level(parser, d)
    /\ OpenNames(parser'.stack) = SubSeq(OpenNames(parser.stack), 1, depth)

\* The step ends the innermost parse_node call and its caller receives `group`.
Returns(group, consumed) == Delivers(group, Len(parser.stack) - 1, consumed)

\* C1: when the parser collecting under open tag T meets a close tag of another
\* name or the end of the tokens, T is returned childless, followed at the same
\* level by the nodes collected under it, in order, and no token is consumed;
\* `<a><b> t </a>` gives a[b, t].
C1_SiblingPromotion ==
    /\ [][(Collecting /\ (parser.pos > Len(tokens)
                          \/ (AtCloseTag /\ tokens[parser.pos].name
                                              # Top(parser.stack).open.name)))
            => LET T == Top(parser.stack)
               IN  Returns(<<[kind |-> "Tag", name |-> T.open.name,
                              attributes |-> T.open.attributes, children |-> <<>>]>>
                           \o T.siblings, 0)]_vars
    /\ [](pc = "parsed"
            /\ input = <<"<", "a", ">", "<", "b", ">", " ", "t", " ", "<", "/", "a", ">">>
          => parser.nodes =
                <<[kind |-> "Tag", name |-> Str_a, attributes |-> EmptyMap,
                   children |-> <<[kind |-> "Tag", name |-> Str_b,
                                   attributes |-> EmptyMap, children |-> <<>>],
                                  [kind |-> "Text", text |-> Str_t]>>]>>)

\* C1 witness: `<a><b> t </a>` has been parsed, b promoted to a sibling of t.
C1_Witness ==
    /\ pc = "parsed"
    /\ input = <<"<", "a", ">", "<", "b", ">", " ", "t", " ", "<", "/", "a", ">">>
    /\ parser.result = "ok"
    /\ Len(parser.nodes) = 1
    /\ Len(parser.nodes[1].children) = 2

\* The open tags pending after the tokens toks, read one by one: an open tag that
\* is not self-closing becomes pending, a close tag ends the innermost pending tag
\* of its name and every tag opened after it; a close tag that has the name of no
\* pending tag is unmatched.
RECURSIVE Scan(_, _)
Scan(toks, open) ==
    IF toks = <<>> THEN [open |-> open, unmatched |-> FALSE]
    ELSE LET t == Head(toks)
         IN  CASE t.kind = "Text" -> Scan(Tail(toks), open)
               [] t.kind = "OpenTag" ->
                    IF ends_with(t.literal, <<"/", ">">>)
                    THEN Scan(Tail(toks), open)
                    ELSE Scan(Tail(toks), Append(open, t.name))
               [] t.kind = "CloseTag" ->
                    IF \E j \in DOMAIN open : open[j] = t.name
                    THEN LET j == CHOOSE j \in DOMAIN open :
                                    /\ open[j] = t.name
                                    /\ \A l \in DOMAIN open : l > j => open[l] # t.name
                         IN  Scan(Tail(toks), SubSeq(open, 1, j - 1))
                    ELSE [open |-> open, unmatched |-> TRUE]

\* The open tags pending when token i of the source is reached.
PendingAt(i) == Scan(SubSeq(tokens, 1, i - 1), <<>>).open

\* C2: parse returns an error exactly when some close tag is reached that has
\* the name of none of the open tags pending at that point, and then it returns
\* no tree; the pending open tags are those of the active parse_node calls.
C2_ErrorIffUnmatchedClose ==
    /\ [](pc = "parsed" =>
            /\ (parser.result = "err") <=> Scan(tokens, <<>>).unmatched
            /\ parser.result \in {"ok", "err"}
            /\ parser.result = "err" => parser.nodes = <<>>)
    /\ [][(pc' = "parse" /\ parser'.pos # parser.pos)
            => OpenNames(parser'.stack) = Scan(SubSeq(tokens', 1, parser'.pos - 1), <<>>).open]_vars

\* C2 witness: `<a> t </b></a>` has failed to parse.
C2_Witness ==
    /\ pc = "parsed"
    /\ input = <<"<", "a", ">", " ", "t", " ", "<", "/", "b", ">", "<", "/", "a", ">">>
    /\ parser.result = "err"

\* The close tag that parse failed on, and the open tags pending when it was reached.
Failed == pc = "parsed" /\ parser.result = "err"

FailedOn == tokens[parser.pos - 1]

FailedPending == PendingAt(parser.pos - 1)

\* C3 as claimed: a close tag that does not match the innermost open tag and is
\* met while some open tag is pending never makes parse return an error.
C3_MismatchNeverFails ==
    Failed => ~(FailedPending # <<>> /\ Top(FailedPending) # FailedOn.name)

\* C3 amended: a close tag that does not match the innermost open tag but has the
\* name of an enclosing pending open tag is recovered by sibling promotion (the
\* innermost tag is returned childless with its nodes as siblings, the close tag
\* stays and the enclosing tag stays pending), and parse never fails on it.
C3_MismatchWithNamesakeRecovered ==
    /\ [](Failed => FailedOn.name \notin Range(FailedPending))
    /\ [][(Collecting /\ AtCloseTag
            /\ tokens[parser.pos].name # Top(parser.stack).open.name
            /\ tokens[parser.pos].name \in Range(OpenNames(parser.stack)))
            => /\ parser'.result = "run"
               /\ parser'.pos = parser.pos
               /\ tokens[parser.pos].name \in Range(OpenNames(parser'.stack))
               /\ LET T == Top(parser.stack)
                  IN  Top(parser'.stack).siblings =
                        parser.stack[Len(parser.stack) - 1].siblings
                            \o <<[kind |-> "Tag", name |-> T.open.name,
                                  attributes |-> T.open.attributes, children |-> <<>>]>>
                            \o T.siblings]_vars

\* C3 witness: in `<a><b></a>` the close tag met under b has closed a.
C3_Witness ==
    /\ pc = "parsed"
    /\ input = <<"<", "a", ">", "<", "b", ">", "<", "/", "a", ">">>
    /\ parser.result = "ok"
    /\ Len(parser.nodes) = 1
    /\ parser.nodes[1].name = Str_a
    /\ Len(parser.nodes[1].children) = 1

\* Every open tag of toks has a matching close tag and the tags are properly
\* nested; `open` is the names of the tags open before toks.
RECURSIVE Nested(_, _)
Nested(toks, open) ==
    IF toks = <<>> THEN open = <<>>
    ELSE LET t == Head(toks)
         IN  CASE t.kind = "Text" -> Nested(Tail(toks), open)
               [] t.kind = "OpenTag" ->
                    IF ends_with(t.literal, <<"/", ">">>)
                    THEN Nested(Tail(toks), open)
                    ELSE Nested(Tail(toks), Append(open, t.name))
               [] t.kind = "CloseTag" ->
                    /\ open # <<>>
                    /\ Top(open) = t.name
                    /\ Nested(Tail(toks), Pop(open))

WellFormed == Nested(tokens, <<>>)

\* C4: for a well-formed input, parsing the rendering of the parsed tree gives a
\* tree equal to the parsed tree.
C4_RoundTrip ==
    (pc = "done" /\ WellFormed) => (reparsed.result = "ok" /\ reparsed.nodes = parser.nodes)

\* The token the parser looks at is an open tag whose literal ends with "/>".
AtSelfClosing ==
    /\ pc = "parse"
    /\ parser.pos <= Len(tokens)
    /\ tokens[parser.pos].kind = "OpenTag"
    /\ LET l == tokens[parser.pos].literal
       IN  Len(l) >= 2 /\ l[Len(l) - 1] = "/" /\ l[Len(l)] = ">"

\* C5: an open tag whose literal ends with "/>" gives exactly one childless Tag
\* with its name and attributes at the level being collected, only that token is
\* consumed and no parse_node call stays active for it, so what follows is parsed
\* as its siblings; `<a/>` and `<a />` give the same tree.
C5_SelfClosing ==
    /\ [][AtSelfClosing
            => Delivers(<<[kind |-> "Tag", name |-> tokens[parser.pos].name,
                           attributes |-> tokens[parser.pos].attributes,
                           children |-> <<>>]>>,
                        Len(parser.stack), 1)]_vars
    /\ [](pc = "parsed"
            /\ input \in {<<"<", "a", "/", ">">>, <<"<", "a", " ", "/", ">">>}
          => parser.nodes = <<[kind |-> "Tag", name |-> Str_a, attributes |-> EmptyMap,
                               children |-> <<>>]>>)

\* C5 witness: in `<a k="v"/><b>` the tag after the self-closing tag is its sibling.
C5_Witness ==
    /\ pc = "parsed"
    /\ input = <<"<", "a", " ", "k", "=", "\"", "v", "\"", "/", ">", "<", "b", ">">>
    /\ Len(parser.nodes) = 2
    /\ parser.nodes[1].name = Str_a
    /\ parser.nodes[1].children = <<>>
    /\ parser.nodes[2].name = Str_b

\* The contents of the Text nodes of a node list, at every depth, in pre-order.
RECURSIVE Texts(_)
Texts(ns) ==
    IF ns = <<>> THEN <<>>
    ELSE (IF Head(ns).kind = "Text" THEN <<Head(ns).text>> ELSE Texts(Head(ns).children))
            \o Texts(Tail(ns))

NotBlank(s) == \E i \in DOMAIN s : s[i] \notin Whitespace

\* s without its leading and trailing whitespace, for s not blank.
Stripped(s) ==
    LET solid == {i \in DOMAIN s : s[i] \notin Whitespace}
        first == CHOOSE i \in solid : \A j \in solid : i <= j
        last == CHOOSE i \in solid : \A j \in solid : i >= j
    IN  SubSeq(s, first, last)

\* The contents of the Text tokens of toks that are not blank, stripped.
RECURSIVE StrippedTexts(_)
StrippedTexts(toks) ==
    IF toks = <<>> THEN <<>>
    ELSE (IF Head(toks).kind = "Text" /\ NotBlank(Head(toks).text)
          THEN <<Stripped(Head(toks).text)>> ELSE <<>>) \o StrippedTexts(Tail(toks))

\* Every node the parser holds: the root nodes and the siblings of the active calls.
Held == parser.nodes \o Concat([i \in DOMAIN parser.stack |-> parser.stack[i].siblings])

\* C6: every Text node, at every depth, is non-empty with no whitespace at either
\* end, and the Text nodes of a parsed tree are the stripped contents of the Text
\* tokens that are not blank, one node per token, in order.
C6_TextTrimmed ==
    /\ \A i \in DOMAIN Texts(Held) :
            LET text == Texts(Held)[i]
            IN  /\ text # <<>>
                /\ text[1] \notin Whitespace
                /\ text[Len(text)] \notin Whitespace
    /\ (pc = "parsed" /\ parser.result = "ok") => Texts(parser.nodes) = StrippedTexts(tokens)

\* C6 witness: `<a>  t </a> ` has one Text child t and no node for the blank text.
C6_Witness ==
    /\ pc = "parsed"
    /\ input = <<"<", "a", ">", " ", " ", "t", " ", "<", "/", "a", ">", " ">>
    /\ Len(tokens) = 4
    /\ parser.nodes = <<[kind |-> "Tag", name |-> Str_a, attributes |-> EmptyMap,
                         children |-> <<[kind |-> "Text", text |-> Str_t]>>]>>

\* toks spelled out: a Text token as the characters of its field f (its "text" or
\* its "literal"), any other token as itself.
RECURSIVE Spell(_, _)
Spell(toks, f) ==
    IF toks = <<>> THEN <<>>
    ELSE (IF Head(toks).kind = "Text"
          THEN [i \in DOMAIN Head(toks)[f] |-> [char |-> Head(toks)[f][i]]]
          ELSE <<Head(toks)>>) \o Spell(Tail(toks), f)

SpanWords(literal) ==
    LET a == Tail(literal)
        b == IF a # <<>> /\ Head(a) = "!" THEN Tail(a) ELSE a
        c == IF b # <<>> /\ b[Len(b)] = ">" THEN SubSeq(b, 1, Len(b) - 1) ELSE b
        d == IF c # <<>> /\ c[Len(c)] = "/" THEN SubSeq(c, 1, Len(c) - 1) ELSE c
    IN  split_whitespace(d)

\* Position of the first '=' of a word, 0 when it has none.
FirstEq(w) ==
    IF \E i \in DOMAIN w : w[i] = "="
    THEN CHOOSE i \in DOMAIN w : w[i] = "=" /\ \A j \in 1..(i - 1) : w[j] # "="
    ELSE 0

\* The key a word stands for: the word before its first '=', or the whole word.
KeyOf(w) == IF FirstEq(w) = 0 THEN w ELSE SubSeq(w, 1, FirstEq(w) - 1)

\* The word has the form key="value".
Quoted(w) ==
    /\ FirstEq(w) > 0
    /\ Len(w) >= FirstEq(w) + 2
    /\ w[FirstEq(w) + 1] = "\""
    /\ w[Len(w)] = "\""

\* C8: in an open tag token the first word of the span is the name; every further
\* word without '=' is an attribute with value "", and every further word
\* key="value" is the attribute key with the value between the quotes (of words
\* with the same key, the last decides), whatever the whitespace around the words.
C8_AttributeWords ==
    pc # "input" =>
        \A i \in DOMAIN raw :
            raw[i].kind = "OpenTag" =>
                LET w == SpanWords(raw[i].literal)
                    attrs == raw[i].attributes
                IN  /\ raw[i].name = w[1]
                    /\ \A j \in 2..Len(w) :
                        (\A l \in (j + 1)..Len(w) : KeyOf(w[l]) # KeyOf(w[j])) =>
                            /\ FirstEq(w[j]) = 0 =>
                                    w[j] \in DOMAIN attrs /\ attrs[w[j]] = <<>>
                            /\ Quoted(w[j]) =>
                                    /\ KeyOf(w[j]) \in DOMAIN attrs
                                    /\ attrs[KeyOf(w[j])] =
                                            SubSeq(w[j], FirstEq(w[j]) + 2, Len(w[j]) - 1)

\* The handles of a list of nodes and of all below them, in pre-order.
RECURSIVE PreOrder(_, _)
PreOrder(heap, refs) ==
    IF refs = <<>> THEN <<>>
    ELSE <<Head(refs)>>
            \o (IF heap[Head(refs)].kind = "Tag"
                THEN PreOrder(heap, heap[Head(refs)].children) ELSE <<>>)
            \o PreOrder(heap, Tail(refs))

\* The handles the callback was invoked on, in the order of the invocations.
Visited == [i \in DOMAIN walk.log |-> walk.log[i].ref]

\* The number of RefCells of the Dom before the traversal.
Parsed == Len(NewWalk(parser.nodes).heap)

\* C9: when depth_first returns Ok, the callback was invoked once on every node of
\* the tree as the callbacks left it, in pre-order; after each invocation the
\* traversal goes into the children the node has then, and into none when it is a
\* Text node.
C9_PreOrderAfterCallback ==
    /\ [](walk.outcome = "ok" =>
            /\ Visited = PreOrder(walk.heap, walk.roots)
            /\ \A i, j \in DOMAIN Visited : i # j => Visited[i] # Visited[j])
    /\ [][(Len(walk'.log) > Len(walk.log) /\ walk'.outcome = "run")
            => LET ref == walk'.log[Len(walk'.log)].ref
               IN  IF walk'.heap[ref].kind = "Tag"
                   THEN /\ Len(walk'.frames) = Len(walk.frames) + 1
                        /\ Top(walk'.frames).nodes = walk'.heap[ref].children
                        /\ Top(walk'.frames).idx = 1
                   ELSE /\ Len(walk'.frames) = Len(walk.frames)
                        /\ Top(walk'.frames).idx = Top(walk.frames).idx + 1]_vars

\* C9 witness: a traversal has returned Ok in which a node the callback inserted
\* was visited and a node the callback removed was not.
C9_Witness ==
    /\ walk.outcome = "ok"
    /\ \E i \in DOMAIN walk.log : walk.log[i].did = "push_tag"
    /\ \E i \in DOMAIN walk.log : walk.log[i].did = "clear"
    /\ \E i \in DOMAIN Visited : Visited[i] > Parsed
    /\ \E ref \in 1..Parsed : \A i \in DOMAIN Visited : Visited[i] # ref

\* C10: a callback that returns an error ends the traversal with that error at
\* once: it is the last invocation, the nodes visited are the pre-order up to the
\* failing node, and the step leaves the tree with every earlier mutation in it.
C10_ErrorStopsTraversal ==
    /\ [](\A i \in DOMAIN walk.log :
            walk.log[i].did = "fail" =>
                /\ i = Len(walk.log)
                /\ walk.outcome = "err"
                /\ walk.frames = <<>>
                /\ pc = "visited"
                /\ Visited = SubSeq(PreOrder(walk.heap, walk.roots), 1, Len(walk.log)))
    /\ [](walk.outcome = "err" => walk.log # <<>> /\ walk.log[Len(walk.log)].did = "fail")
    /\ [][(Len(walk'.log) > Len(walk.log) /\ walk'.log[Len(walk'.log)].did = "fail")
            => walk'.heap = walk.heap /\ walk'.roots = walk.roots]_vars
    /\ [][pc # "visited"]_vars

\* C10 witness: a callback failed after an earlier one changed the tree, nodes
\* later in pre-order were not visited and the change is still in the tree.
C10_Witness ==
    /\ walk.outcome = "err"
    /\ walk.mutations > 0
    /\ walk.heap # NewWalk(parser.nodes).heap
    /\ Len(walk.log) < Len(PreOrder(walk.heap, walk.roots))

\* The tree the traversal leaves, as values.
Tree == Deref(walk.heap, walk.roots)

\* An attribute as the claim writes it: the bare name for an empty value, else
\* name="value".
Item(k, v) == IF v = <<>> THEN k ELSE k \o <<"=", "\"">> \o v \o <<"\"">>

\* Every item with one space before it.
RECURSIVE Joined(_)
Joined(items) == IF items = <<>> THEN <<>> ELSE <<" ">> \o Head(items) \o Joined(Tail(items))

\* s without the whitespace at its end.
NoTrail(s) ==
    LET solid == {i \in DOMAIN s : s[i] \notin Whitespace}
    IN  IF solid = {} THEN <<>>
        ELSE SubSeq(s, 1, CHOOSE i \in solid : \A j \in solid : i >= j)

\* The orders of a set.
Orders(S) == {o \in [1..Cardinality(S) -> S] : Range(o) = S}

\* The attributes of a tag written out, in any order.
AttrForms(attributes) ==
    {NoTrail(Joined([i \in DOMAIN o |-> Item(o[i], attributes[o[i]])])) :
        o \in Orders(DOMAIN attributes)}

\* The forms of a node: a Text is its content, a Tag with no children is
\* <name attrs/>, a Tag with children is <name attrs>, its children in list
\* order, </name>.
RECURSIVE Forms(_)
RECURSIVE KidForms(_)
KidForms(children) ==
    IF children = <<>> THEN {<<>>}
    ELSE {<<" ">> \o h \o t : h \in Forms(Head(children)), t \in KidForms(Tail(children))}

Forms(node) ==
    CASE node.kind = "Text" -> {node.text}
      [] node.kind = "Tag" /\ node.children = <<>> ->
            {<<"<">> \o node.name \o a \o <<"/", ">">> : a \in AttrForms(node.attributes)}
      [] node.kind = "Tag" /\ node.children # <<>> ->
            {<<"<">> \o node.name \o a \o <<">">> \o NoTrail(k)
                \o <<"<", "/">> \o node.name \o <<">">> :
                a \in AttrForms(node.attributes), k \in KidForms(node.children)}

\* The forms of the root nodes, a newline after each.
RECURSIVE DomForms(_)
DomForms(roots) ==
    IF roots = <<>> THEN {<<>>}
    ELSE {h \o <<"\n">> \o t : h \in Forms(Head(roots)), t \in DomForms(Tail(roots))}

\* C11: a Tag with no children is rendered as <name attrs/>, a Tag with children
\* as <name attrs>, its rendered children in list order, </name>; an attribute with
\* empty value is its bare name, any other name="value"; one space stands before
\* every attribute and every child, whitespace at the end of the attributes and of
\* the children is dropped; rendering changes nothing of the tree.
C11_RenderForms ==
    /\ [](pc = "output" => rendered \in DomForms(Tree))
    /\ [][pc' = "output" => (walk' = walk /\ parser' = parser)]_vars

\* C11 witness: `<l rel="s" href="a.css"/><c k="v" j/>` is rendered after a.css was
\* inlined: a tag with a child, and a tag with no child, a bare and a valued attribute.
C11_Witness ==
    /\ pc = "output"
    /\ Len(walk.log) = 3
    /\ walk.log[1].did = "text"
    /\ rendered = <<"<", "s", "t", "y", "l", "e", ">", " ", "x", "<", "/", "s", "t", "y", "l", "e", ">", "\n", "<", "c", " ", "j", " ", "k", "=", "\"", "v", "\"", "/", ">", "\n">>

\* C12: rendering is deterministic: the string rendered for a tree is the only
\* string rendering can give for a tree with these nodes, so two equal trees are
\* rendered identically, the order of the attributes of each tag included.
C12_RenderDeterministic ==
    pc = "output" => \A s \in DomStrings(Tree) : s = rendered

Str_DOCTYPE == <<"D", "O", "C", "T", "Y", "P", "E">>

Str_html == <<"h", "t", "m", "l">>

\* The words of a span: the span without the '<' and the '!' and '/' after it at
\* its front and without the '>' and the '/' before it at its end, split at
\* whitespace.
StrippedWords(literal) ==
    LET front == trim_start_matches(
                    trim_start_matches(trim_start_matches(literal, <<"<">>), <<"!">>), <<"/">>)
    IN  split_whitespace(trim_end_matches(trim_end_matches(front, <<">">>), <<"/">>))

Invoked == pc = "visit" /\ Len(walk'.log) = Len(walk.log) + 1

\* The handle the callback is invoked on in the step.
Given == walk'.log[Len(walk'.log)].ref

\* The file of the invocation of the step loaded.
Loaded == walk'.log[Len(walk'.log)].did # "fail"

HasLink(node) ==
    node.kind = "Tag" /\ (Str_href \in DOMAIN node.attributes \/ Str_src \in DOMAIN node.attributes)

\* The link of a tag: the href value, or the src value when there is no href.
LinkOf(node) ==
    IF Str_href \in DOMAIN node.attributes
    THEN node.attributes[Str_href] ELSE node.attributes[Str_src]

DotCss(link) == ends_with(link, <<".", "c", "s", "s">>)

TextResource(link) ==
    ends_with(link, <<".", "h", "t", "m", "l">>) \/ ends_with(link, <<".", "j", "s">>) \/ DotCss(link)

\* Every cell of the heap but the one behind ref is as it was.
OthersKept(ref) ==
    \A r \in DOMAIN walk.heap : r # ref => walk'.heap[r] = walk.heap[r]

\* C14: when the callback is invoked on a Tag whose link ends with .html, .js or
\* .css and the file loads, the tag loses href and src, its children become
\* exactly one new Text node with the content, and, only for .css, its name
\* becomes style and rel is removed; every other attribute and node is unchanged.
C14_TextInlined ==
    [][(Invoked /\ HasLink(walk.heap[Given]) /\ TextResource(LinkOf(walk.heap[Given]))
            /\ Loaded)
        => LET before == walk.heap[Given]
               after == walk'.heap[Given]
               css == DotCss(LinkOf(before))
               gone == {Str_href, Str_src} \cup (IF css THEN {Str_rel} ELSE {})
           IN  /\ after.kind = "Tag"
               /\ after.name = IF css THEN Str_style ELSE before.name
               /\ DOMAIN after.attributes = DOMAIN before.attributes \ gone
               /\ \A k \in DOMAIN after.attributes : after.attributes[k] = before.attributes[k]
               /\ Len(walk'.heap) = Len(walk.heap) + 1
               /\ after.children = <<Len(walk'.heap)>>
               /\ walk'.heap[Len(walk'.heap)].kind = "Text"
               /\ walk'.heap[Len(walk'.heap)].text \in Contents
               /\ OthersKept(Given)
               /\ walk'.roots = walk.roots]_vars

\* C14 witness: in `<s src="/b.js"> t </s><l rel="s" href="a.css"/>` both files
\* have been inlined: s lost src and its child t, l became style and lost rel.
C14_Witness ==
    /\ input = <<"<", "s", " ", "s", "r", "c", "=", "\"", "/", "b", ".", "j", "s", "\"", ">", " ", "t", " ", "<", "/", "s", ">", "<", "l", " ", "r", "e", "l", "=", "\"", "s", "\"", " ", "h", "r", "e", "f", "=", "\"", "a", ".", "c", "s", "s", "\"", "/", ">">>
    /\ Len(walk.log) = 4
    /\ walk.log[1].did = "text"
    /\ walk.log[3].did = "text"
    /\ Tree[1].attributes = EmptyMap
    /\ Len(Tree[1].children) = 1
    /\ Tree[1].children[1].text \in Contents
    /\ Tree[2].name = Str_style
    /\ Tree[2].attributes = EmptyMap

\* The data URIs of a link: data:<media type>;base64,<base64 of the bytes>, for
\* the bytes a file may hold.
DataUris(link) ==
    {<<"d", "a", "t", "a", ":">> \o media_type(link) \o <<";", "b", "a", "s", "e", "6", "4", ",">> \o base64_encode(bytes) : bytes \in Contents}

\* C15: when the callback is invoked on a Tag whose link is no text resource and
\* the file loads, the value of href (of src when there is no href) becomes the
\* data URI data:<media type>;base64,<base64 of the file>, and nothing else of
\* the node or of the tree changes.
C15_DataUriInlined ==
    [][(Invoked /\ HasLink(walk.heap[Given]) /\ ~TextResource(LinkOf(walk.heap[Given]))
            /\ Loaded)
        => LET before == walk.heap[Given]
               after == walk'.heap[Given]
               key == IF Str_href \in DOMAIN before.attributes THEN Str_href ELSE Str_src
           IN  /\ after.kind = "Tag"
               /\ after.name = before.name
               /\ after.children = before.children
               /\ DOMAIN after.attributes = DOMAIN before.attributes
               /\ \A k \in DOMAIN after.attributes :
                    k # key => after.attributes[k] = before.attributes[k]
               /\ after.attributes[key] \in DataUris(trim_matches(LinkOf(before), "/"))
               /\ Len(walk'.heap) = Len(walk.heap)
               /\ OthersKept(Given)
               /\ walk'.roots = walk.roots]_vars

\* The tree that mirrors properly nested tokens: every open tag up to its close
\* tag is a Tag whose children are what lies between them; `open` is the tags
\* open so far, each with the nodes it has got, the roots at the bottom.
RECURSIVE Mirror(_, _)
Mirror(toks, open) ==
    IF toks = <<>> THEN open[1].got
    ELSE LET t == Head(toks)
             top == Len(open)
             Got(n) == [open EXCEPT ![top].got = Append(@, n)]
         IN  CASE t.kind = "Text" ->
                    Mirror(Tail(toks),
                           IF NotBlank(t.text)
                           THEN Got([kind |-> "Text", text |-> Stripped(t.text)]) ELSE open)
               [] t.kind = "OpenTag" ->
                    IF ends_with(t.literal, <<"/", ">">>)
                    THEN Mirror(Tail(toks),
                                Got([kind |-> "Tag", name |-> t.name,
                                     attributes |-> t.attributes, children |-> <<>>]))
                    ELSE Mirror(Tail(toks), Append(open, [tag |-> t, got |-> <<>>]))
               [] t.kind = "CloseTag" ->
                    Mirror(Tail(toks),
                           [SubSeq(open, 1, top - 1) EXCEPT ![top - 1].got =
                                Append(@, [kind |-> "Tag", name |-> open[top].tag.name,
                                           attributes |-> open[top].tag.attributes,
                                           children |-> open[top].got])])

\* C16: when the parser collecting under open tag T reaches a close tag with T's
\* name, the close tag is consumed and the call returns exactly one node, the Tag
\* of T's name and attributes with the nodes collected since T was opened as its
\* children, in order; properly nested input gives the tree that mirrors the
\* nesting of its tags.
C16_MatchingCloseTag ==
    /\ [][(Collecting /\ AtCloseTag
            /\ tokens[parser.pos].name = Top(parser.stack).open.name)
            => LET T == Top(parser.stack)
               IN  Returns(<<[kind |-> "Tag", name |-> T.open.name,
                              attributes |-> T.open.attributes,
                              children |-> T.siblings]>>, 1)]_vars
    /\ []((pc = "parsed" /\ WellFormed)
            => /\ parser.result = "ok"
               /\ parser.nodes = Mirror(tokens, <<[tag |-> <<>>, got |-> <<>>]>>))

\* C16 witness: `<a><b> t </b></a>` has been parsed into a[b[t]].
C16_Witness ==
    /\ pc = "parsed"
    /\ input = <<"<", "a", ">", "<", "b", ">", " ", "t", " ", "<", "/", "b", ">", "<", "/", "a", ">">>
    /\ parser.nodes =
        <<[kind |-> "Tag", name |-> Str_a, attributes |-> EmptyMap,
           children |-> <<[kind |-> "Tag", name |-> Str_b, attributes |-> EmptyMap,
                           children |-> <<[kind |-> "Text", text |-> Str_t]>>]>>]>>

\* The open tags above position j give up: each becomes a childless Tag followed
\* by the nodes it had got, among the nodes of the tag below it.
RECURSIVE GiveUp(_, _)
GiveUp(open, j) ==
    LET top == Len(open)
    IN  IF top <= j THEN open
        ELSE GiveUp([SubSeq(open, 1, top - 1) EXCEPT ![top - 1].got =
                        @ \o <<[kind |-> "Tag", name |-> open[top].tag.name,
                                attributes |-> open[top].tag.attributes,
                                children |-> <<>>]>> \o open[top].got],
                    j)

\* The tree of a token sequence when every close tag closes the innermost pending
\* open tag of its name and the tags opened after that one give up; `open` as in
\* Mirror. A close tag with the name of no pending tag ends the reading.
RECURSIVE Recover(_, _)
Recover(toks, open) ==
    IF toks = <<>> THEN GiveUp(open, 1)[1].got
    ELSE LET t == Head(toks)
             top == Len(open)
             Got(n) == [open EXCEPT ![top].got = Append(@, n)]
         IN  CASE t.kind = "Text" ->
                    Recover(Tail(toks),
                            IF NotBlank(t.text)
                            THEN Got([kind |-> "Text", text |-> Stripped(t.text)]) ELSE open)
               [] t.kind = "OpenTag" ->
                    IF ends_with(t.literal, <<"/", ">">>)
                    THEN Recover(Tail(toks),
                                 Got([kind |-> "Tag", name |-> t.name,
                                      attributes |-> t.attributes, children |-> <<>>]))
                    ELSE Recover(Tail(toks), Append(open, [tag |-> t, got |-> <<>>]))
               [] t.kind = "CloseTag" ->
                    LET same == {j \in 2..top : open[j].tag.name = t.name}
                    IN  IF same = {} THEN <<>>
                        ELSE LET j == CHOOSE j \in same : \A l \in same : l <= j
                                 up == GiveUp(open, j)
                             IN  Recover(Tail(toks),
                                    [SubSeq(up, 1, j - 1) EXCEPT ![j - 1].got =
                                        Append(@, [kind |-> "Tag", name |-> up[j].tag.name,
                                                   attributes |-> up[j].tag.attributes,
                                                   children |-> up[j].got])])

\* C17: a close tag closes the innermost pending open tag of its name: that tag
\* gets as children, in document order, all nodes produced since it was opened,
\* and every tag opened after it that is still pending is a childless Tag among
\* them, followed by the nodes collected under it.
C17_ClosesInnermostNamesake ==
    (pc = "parsed" /\ parser.result = "ok")
        => parser.nodes = Recover(tokens, <<[tag |-> <<>>, got |-> <<>>]>>)

\* C17 witness: in `<a><b><b> t </a>` the close tag has closed a over two pending
\* b: a[b, b, t].
C17_Witness ==
    /\ pc = "parsed"
    /\ input = <<"<", "a", ">", "<", "b", ">", "<", "b", ">", " ", "t", " ", "<", "/", "a", ">">>
    /\ parser.result = "ok"
    /\ Len(parser.nodes) = 1
    /\ Len(parser.nodes[1].children) = 3
    /\ parser.nodes[1].children[3] = [kind |-> "Text", text |-> Str_t]

\* A token made of a whole span <...> that does not begin with "</".
WholeSpan(tok) ==
    /\ Len(tok.literal) >= 2
    /\ tok.literal[1] = "<"
    /\ tok.literal[2] # "/"
    /\ tok.literal[Len(tok.literal)] = ">"
    /\ \A i \in 2..Len(tok.literal) : tok.literal[i] # "<"

\* The word is purely alphabetic, or contains ="
Fits(word) ==
    \/ \A i \in DOMAIN word : word[i] \in Letters
    \/ \E i \in 1..(Len(word) - 1) : word[i] = "=" /\ word[i + 1] = "\""

\* C18 as claimed: a span that does not begin with "</", whatever the number of
\* its words, is an OpenTag token if and only if every word is alphabetic or
\* contains =", and else the whole span is a Text token.
C18_TagIffEveryWordFits ==
    pc # "input" =>
        \A i \in DOMAIN raw :
            WholeSpan(raw[i]) =>
                LET words == StrippedWords(raw[i].literal)
                IN  IF \A j \in DOMAIN words : Fits(words[j])
                    THEN raw[i].kind = "OpenTag"
                    ELSE raw[i].kind = "Text" /\ raw[i].text = raw[i].literal

\* C18 amended: a span that does not begin with "</" is an OpenTag token if and
\* only if it has at least one word and every word is alphabetic or contains =";
\* a span with no word, and every other span, is a Text token of the whole span.
C18_TagIffWordsAndEveryWordFits ==
    pc # "input" =>
        \A i \in DOMAIN raw :
            WholeSpan(raw[i]) =>
                LET words == StrippedWords(raw[i].literal)
                IN  IF words # <<>> /\ \A j \in DOMAIN words : Fits(words[j])
                    THEN raw[i].kind = "OpenTag"
                    ELSE raw[i].kind = "Text" /\ raw[i].text = raw[i].literal

\* C18 witness: the span `<1 html>` of two words, one of them not fitting, has
\* become a Text token whole.
C18_Witness ==
    /\ pc # "input"
    /\ input = <<"<", "1", " ", "h", "t", "m", "l", ">">>
    /\ raw = <<[kind |-> "Text", text |-> <<"<", "1", " ", "h", "t", "m", "l", ">">>, literal |-> <<"<", "1", " ", "h", "t", "m", "l", ">">>]>>

\* The value a word with '=' stands for: everything after its first '=', without
\* the quotes around it.
ValueOf(w) ==
    trim_end_matches(trim_start_matches(SubSeq(w, FirstEq(w) + 1, Len(w)), <<"\"">>), <<"\"">>)

\* C19: an attribute word is split at its first '=' only: the key is what stands
\* before it and the value everything after it without the surrounding quotes, a
\* '=' inside the value included (of words with the same key, the last decides).
C19_SplitAtFirstEq ==
    pc # "input" =>
        \A i \in DOMAIN raw :
            raw[i].kind = "OpenTag" =>
                LET w == StrippedWords(raw[i].literal)
                    attrs == raw[i].attributes
                IN  \A j \in 2..Len(w) :
                        (FirstEq(w[j]) > 0
                            /\ \A l \in (j + 1)..Len(w) : KeyOf(w[l]) # KeyOf(w[j]))
                        => /\ KeyOf(w[j]) \in DOMAIN attrs
                           /\ attrs[KeyOf(w[j])] = ValueOf(w[j])

\* C20: the literal of every OpenTag and of every CloseTag token the tokenizer
\* yields begins with '<' and has its terminating '>' as last character.
C20_TagLiteralIsSpan ==
    pc # "input" =>
        \A i \in DOMAIN raw :
            raw[i].kind \in {"OpenTag", "CloseTag"} =>
                /\ raw[i].literal # <<>>
                /\ raw[i].literal[1] = "<"
                /\ raw[i].literal[Len(raw[i].literal)] = ">"

\* The literals of a token sequence, one after the other.
Literals(toks) == Concat([i \in DOMAIN toks |-> toks[i].literal])

\* The characters of s after its last '>', all of s when it has none.
RECURSIVE Rest(_)
Rest(s) ==
    IF s = <<>> \/ s[Len(s)] = ">" THEN <<>> ELSE Rest(SubSeq(s, 1, Len(s) - 1)) \o <<s[Len(s)]>>

\* C21: the literals of the tokens the tokenizer yields, in the order it yields
\* them, make up exactly the input, and so do the literals of the tokens after
\* text merging; the characters after the last '>' of the input are the last
\* token the tokenizer yields, one Text token.
C21_Lossless ==
    pc # "input" =>
        /\ Literals(raw) = input
        /\ Literals(tokens) = input
        /\ Rest(input) # <<>> =>
                /\ raw # <<>>
                /\ raw[Len(raw)] = [kind |-> "Text", text |-> Rest(input), literal |-> Rest(input)]

\* C21 witness: of `<b> k<` the tokenizer has yielded the open tag and then the
\* rest ` k<` as one Text token.
C21_Witness ==
    /\ pc # "input"
    /\ input = <<"<", "b", ">", " ", "k", "<">>
    /\ Len(raw) = 2
    /\ raw[1].kind = "OpenTag"
    /\ raw[2].literal = <<" ", "k", "<">>

\* The callback is about to be invoked on a node.
AtNode ==
    /\ pc = "visit"
    /\ walk.frames # <<>>
    /\ Top(walk.frames).idx <= Len(Top(walk.frames).nodes)

\* The handle of that node.
Current == Top(walk.frames).nodes[Top(walk.frames).idx]

\* The proper ancestors of the node behind ref: the tags that have it below them.
Ancestors(heap, ref) ==
    {r \in DOMAIN heap :
        heap[r].kind = "Tag" /\ \E i \in DOMAIN PreOrder(heap, heap[r].children) :
                                    PreOrder(heap, heap[r].children)[i] = ref}

\* The step is an invocation in which the callback requested write access.
Requested == Invoked /\ "target" \in DOMAIN walk'.log[Len(walk'.log)]

\* C22: whenever the callback is invoked on a node, the traversal holds no access
\* to that node, and the callback's request for write access to the node it is
\* given is always granted.
C22_GivenNodeIsFree ==
    /\ [](AtNode => Current \notin Reads(walk))
    /\ [][(Requested /\ walk'.log[Len(walk'.log)].target = Given)
            => /\ walk'.log[Len(walk'.log)].did # "rejected"
               /\ walk'.outcome = "run"
               /\ walk'.heap = CallbackEffect(walk.heap, Given, walk'.log[Len(walk'.log)].did)]_vars

\* C22 witness: a callback has written to the node it was given, a node two levels
\* down in the tree, and the traversal has gone on to the end.
C22_Witness ==
    /\ walk.outcome = "ok"
    /\ \E i \in DOMAIN walk.log :
            /\ "target" \in DOMAIN walk.log[i]
            /\ walk.log[i].target = walk.log[i].ref
            /\ walk.log[i].did = "push_text"
            /\ Cardinality(Ancestors(walk.heap, walk.log[i].ref)) = 2

\* C23: while the callback runs on a node, the traversal holds read access to
\* every proper ancestor of the node and to no other node; a request for write
\* access to one of them is rejected, the tree is left as it was and the
\* traversal is over; no other request is rejected.
C23_AncestorsAreRead ==
    /\ [](AtNode => Reads(walk) = Ancestors(walk.heap, Current))
    /\ [][Requested
            => LET entry == walk'.log[Len(walk'.log)]
               IN  IF entry.target \in Ancestors(walk.heap, Given)
                   THEN /\ entry.did = "rejected"
                        /\ walk'.heap = walk.heap
                        /\ walk'.roots = walk.roots
                        /\ walk'.outcome = "panic"
                   ELSE entry.did # "rejected"]_vars

\* C23 witness: after a callback changed the tree, a callback invoked two levels
\* down requested write access to an ancestor and was rejected.
C23_Witness ==
    /\ walk.outcome = "panic"
    /\ walk.mutations > 0
    /\ LET entry == walk.log[Len(walk.log)]
       IN  /\ entry.did = "rejected"
           /\ entry.target \in Ancestors(walk.heap, entry.ref)
           /\ Cardinality(Ancestors(walk.heap, entry.ref)) = 2

\* C24: when the callback is invoked on a Tag with a link and the file loads, it
\* takes the text branch exactly when the link's file name ends with .html, .js or
\* .css, the dot included, and the binary branch for every other link.
C24_BranchByDotExtension ==
    [][(Invoked /\ HasLink(walk.heap[Given]) /\ Loaded)
        => walk'.log[Len(walk'.log)].did =
                IF TextResource(trim_matches(LinkOf(walk.heap[Given]), "/"))
                THEN "text" ELSE "binary"]_vars

\* The nodes of a node list and of all below them in pre-order, each without its
\* children.
RECURSIVE Listing(_)
Listing(ns) ==
    IF ns = <<>> THEN <<>>
    ELSE (IF Head(ns).kind = "Text" THEN <<Head(ns)>>
          ELSE <<[kind |-> "Tag", name |-> Head(ns).name, attributes |-> Head(ns).attributes]>>
                    \o Listing(Head(ns).children))
            \o Listing(Tail(ns))

\* The nodes the tokens stand for, in the order of the tokens: a Tag for an open
\* tag, a Text for a Text token that is not all whitespace, nothing for a close tag.
RECURSIVE Stood(_)
Stood(toks) ==
    IF toks = <<>> THEN <<>>
    ELSE LET t == Head(toks)
         IN  (CASE t.kind = "OpenTag" ->
                        <<[kind |-> "Tag", name |-> t.name, attributes |-> t.attributes]>>
                [] t.kind = "Text" ->
                        IF NotBlank(t.text)
                        THEN <<[kind |-> "Text", text |-> Stripped(t.text)]>> ELSE <<>>
                [] t.kind = "CloseTag" -> <<>>)
                \o Stood(Tail(toks))

\* No two neighbours of a node list are both Text nodes, at any depth.
RECURSIVE TextsApart(_)
TextsApart(ns) ==
    /\ \A i \in 1..(Len(ns) - 1) : ~(ns[i].kind = "Text" /\ ns[i + 1].kind = "Text")
    /\ \A i \in DOMAIN ns : ns[i].kind = "Tag" => TextsApart(ns[i].children)

\* C25: when parse succeeds, the nodes of the tree in pre-order are exactly the
\* nodes the tokens stand for, in the order of the tokens: one Tag per open tag
\* with its name and attributes, one Text per merged Text token that is not all
\* whitespace, none dropped, duplicated or moved; no two adjacent siblings are
\* both Text nodes.
C25_NodesAreTokens ==
    (pc = "parsed" /\ parser.result = "ok") =>
        /\ Listing(parser.nodes) = Stood(tokens)
        /\ TextsApart(parser.nodes)

\* C25 witness: `<a><b> t </a> t ` has been parsed with b giving up: a[b, t], t.
C25_Witness ==
    /\ pc = "parsed"
    /\ input = <<"<", "a", ">", "<", "b", ">", " ", "t", " ", "<", "/", "a", ">", " ", "t", " ">>
    /\ parser.result = "ok"
    /\ Len(parser.nodes) = 2
    /\ Len(parser.nodes[1].children) = 2
    /\ parser.nodes[2] = [kind |-> "Text", text |-> Str_t]

====
